---- MODULE Spec2Model ----
(***************************************************************************)
(* Model of expired_sstables.py: the range/overlap helpers, the expiration *)
(* classifier, the blocker resolver, the space accountant, and main()'s    *)
(* run from the liveness gate to the link-then-remove move.                *)
(*                                                                         *)
(* Python integers are unbounded while TLC's are 32-bit, so every integer  *)
(* read from an sstable file (timestamps in microseconds, deletion time in *)
(* seconds, tokens) is held as a pair <<hi, lo>> of base-10^6 digits       *)
(* (value = hi * 10^6 + lo, 0 <= lo < 10^6).  Seconds computed by the      *)
(* program itself (gc_before, default_ttl, timestamp_in_seconds) are plain *)
(* integers.                                                               *)
(***************************************************************************)
EXTENDS Integers, Sequences, FiniteSets, TLC

VARIABLES
    pc,     \* position of the run / of the function call being checked
    fn,     \* function-level specifications: the function under call
    args,   \* its arguments
    ret,    \* its return value (<<>> until it returned)
    opts,   \* main: the parsed command line
    env,    \* main: what the operating system answers (directories, processes)
    liveness,   \* what is_scylla_running returned, "unconsulted" before
    disk,       \* component files in the table directory: <<name, component>>
    backup,     \* component files in the destination directory
    listing,    \* TOC entries of os.listdir not yet processed
    decoded,    \* history: one record per entry process_sstables handled
    sstables,
    expired_sstables,
    non_expired_sstables,
    blocked_expired_ssts,
    non_blocked_expired_ssts,
    space,      \* history: the results of total_space_for_sstables_in_mb
    cursor,     \* move_non_blocked_expired_ssts_to: sstable, phase, component
    removed,    \* history: component files removed from the table directory
    link_failed, \* history: component files whose os.link raised
    faults,     \* I/O failures of existing files so far
    exit_msg    \* what the run exited with (<<>> while it runs)

fnVars == <<fn, args, ret>>
runVars == <<opts, env, liveness, disk, backup, listing, decoded, sstables,
             expired_sstables, non_expired_sstables, blocked_expired_ssts,
             non_blocked_expired_ssts, space, cursor, removed, link_failed,
             faults, exit_msg>>
vars == <<pc, fn, args, ret, opts, env, liveness, disk, backup, listing, decoded,
          sstables, expired_sstables, non_expired_sstables, blocked_expired_ssts,
          non_blocked_expired_ssts, space, cursor, removed, link_failed, faults,
          exit_msg>>

\* the run's variables while a single function is under call
RunIdle ==
    /\ opts = <<>> /\ env = <<>> /\ liveness = "unconsulted"
    /\ disk = {} /\ backup = {} /\ listing = <<>> /\ decoded = <<>>
    /\ sstables = <<>> /\ expired_sstables = <<>> /\ non_expired_sstables = <<>>
    /\ blocked_expired_ssts = <<>> /\ non_blocked_expired_ssts = <<>>
    /\ space = <<>> /\ cursor = <<>> /\ removed = {} /\ link_failed = {}
    /\ faults = 0 /\ exit_msg = <<>>

---------------------------------------------------------------------------
(* Integers as base-10^6 digit pairs *)

Base == 1000000

FromInt(x) == <<x \div Base, x % Base>>

NumLe(a, b) == a[1] < b[1] \/ (a[1] = b[1] /\ a[2] <= b[2])

NumLt(a, b) == a[1] < b[1] \/ (a[1] = b[1] /\ a[2] < b[2])

SeqToSet(s) == {s[i] : i \in 1..Len(s)}

\* all sequences over S of length lo..hi
SeqsOf(S, lo, hi) == UNION {[1..n -> S] : n \in lo..hi}

---------------------------------------------------------------------------
(* class inclusive_range *)

inclusive_range(first, last) == [first |-> first, last |-> last]

\* a plausible slip: only the first disjunct of the test
overlaps_one_sided(self, other) ==
    NumLe(self.first, other.first) /\ NumLe(other.first, self.last)

\* self.first <= other.first <= self.last or other.first <= self.first <= other.last
\* (the isinstance guard never fires: every caller passes an inclusive_range)
overlaps(self, other) ==
    \/ (NumLe(self.first, other.first) /\ NumLe(other.first, self.last))
    \/ (NumLe(other.first, self.first) /\ NumLe(self.first, other.last))

---------------------------------------------------------------------------
(* class sstable *)

sstable(name, min_timestamp, max_timestamp, max_deletion_time, first_token, last_token) ==
    [name |-> name,
     min_timestamp |-> min_timestamp,
     max_timestamp |-> max_timestamp,
     max_deletion_time |-> max_deletion_time,
     first_token |-> first_token,
     last_token |-> last_token]

overlaps_in_token(self, other_range) ==
    overlaps(inclusive_range(self.first_token, self.last_token), other_range)

overlaps_in_timestamp(self, other) ==
    overlaps(inclusive_range(self.min_timestamp, self.max_timestamp),
             inclusive_range(other.min_timestamp, other.max_timestamp))

token_range(self) == inclusive_range(self.first_token, self.last_token)

---------------------------------------------------------------------------
(* Overlap/blocker resolver *)

\* a plausible slip: the envelope taken from the first expired file alone
get_unified_token_range_first_only(ssts) ==
    inclusive_range(ssts[1].first_token, ssts[1].last_token)

\* min(sstables, key=first_token), max(sstables, key=last_token); raises on
\* an empty list, which main() excludes (len(expired_sstables) guard)
get_unified_token_range(ssts) ==
    LET firsts == {ssts[i].first_token : i \in 1..Len(ssts)}
        lasts == {ssts[i].last_token : i \in 1..Len(ssts)}
        first == CHOOSE x \in firsts : \A y \in firsts : NumLe(x, y)
        last == CHOOSE x \in lasts : \A y \in lasts : NumLe(y, x)
    IN inclusive_range(first, last)

\* a plausible slip: every non-expired file taken as a candidate
find_blockers_no_token_filter(expired_ssts, non_expired_ssts) ==
    LET found_blocker(e) ==
            \E i \in 1..Len(non_expired_ssts) :
                overlaps_in_timestamp(e, non_expired_ssts[i])
        not_found(e) == ~found_blocker(e)
    IN [blocked |-> SelectSeq(expired_ssts, found_blocker),
        non_blocked |-> SelectSeq(expired_ssts, not_found)]

\* a plausible slip: the flag overwritten by every candidate, so that the
\* last candidate alone decides
find_blockers_last_candidate_decides(expired_ssts, non_expired_ssts) ==
    LET expired_ssts_token_range == get_unified_token_range(expired_ssts)
        in_range(s) == overlaps_in_token(s, expired_ssts_token_range)
        overlapping_non_expired_ssts == SelectSeq(non_expired_ssts, in_range)
        n == Len(overlapping_non_expired_ssts)
        found_blocker(e) ==
            /\ n > 0
            /\ overlaps_in_timestamp(e, overlapping_non_expired_ssts[n])
        not_found(e) == ~found_blocker(e)
    IN [blocked |-> SelectSeq(expired_ssts, found_blocker),
        non_blocked |-> SelectSeq(expired_ssts, not_found)]

\* first loop: the non-expired files overlapping the expired envelope;
\* second loop: each expired file goes to blocked (once) when some candidate
\* overlaps it in timestamp, to non_blocked otherwise, in input order
find_blockers_for_expired_sstables(expired_ssts, non_expired_ssts) ==
    LET expired_ssts_token_range == get_unified_token_range(expired_ssts)
        in_range(s) == overlaps_in_token(s, expired_ssts_token_range)
        overlapping_non_expired_ssts == SelectSeq(non_expired_ssts, in_range)
        found_blocker(e) ==
            \E i \in 1..Len(overlapping_non_expired_ssts) :
                overlaps_in_timestamp(e, overlapping_non_expired_ssts[i])
        not_found(e) == ~found_blocker(e)
    IN [blocked |-> SelectSeq(expired_ssts, found_blocker),
        non_blocked |-> SelectSeq(expired_ssts, not_found)]

---------------------------------------------------------------------------
(* Expiration classifier *)

\* WARNING in the source: a CONSTANT, timestamp in seconds (2147483647)
deletion_time_for_never_expiring_sstable == FromInt(2147483647)

\* a plausible slip: int(timestamp / 1000000), truncation instead of round
timestamp_in_seconds_truncating(timestamp) == timestamp[1]

\* int(round(timestamp / 1000000)): timestamp = hi * 10^6 + lo, so the
\* quotient is hi + lo / 10^6; Python 3's round() goes to the nearest
\* integer and, on an exact half, to the even one
timestamp_in_seconds(timestamp) ==
    LET hi == timestamp[1]
        lo == timestamp[2]
    IN IF 2 * lo < Base THEN hi
       ELSE IF 2 * lo > Base THEN hi + 1
       ELSE IF hi % 2 = 0 THEN hi ELSE hi + 1

ignores_max_deletion_time(sst, ignore_max_deletion_time) ==
    ignore_max_deletion_time
        /\ sst.max_deletion_time = deletion_time_for_never_expiring_sstable

calculate_max_deletion_time(sst, default_ttl) ==
    timestamp_in_seconds(sst.max_timestamp) + default_ttl

is_sstable_expired(sst, gc_before_in_sec, default_ttl, ignore_max_deletion_time) ==
    LET max_deletion_time ==
            IF ignores_max_deletion_time(sst, ignore_max_deletion_time)
            THEN FromInt(calculate_max_deletion_time(sst, default_ttl))
            ELSE sst.max_deletion_time
    IN NumLt(max_deletion_time, FromInt(gc_before_in_sec))

find_expired_sstables(ssts, gc_before_in_sec, default_ttl, ignore_max_deletion_time) ==
    LET is_expired(s) ==
            is_sstable_expired(s, gc_before_in_sec, default_ttl, ignore_max_deletion_time)
        not_expired(s) == ~is_expired(s)
    IN [expired |-> SelectSeq(ssts, is_expired),
        non_expired |-> SelectSeq(ssts, not_expired)]

---------------------------------------------------------------------------
(* Sanity validator *)

sane_timestamp(ts, min_ts, max_ts) == NumLe(min_ts, ts) /\ NumLe(ts, max_ts)

\* a plausible slip: the min/max order test left out
sanity_check_without_order(sst) ==
    IF sst.min_timestamp = FromInt(0) THEN "min_timestamp == 0"
    ELSE IF sst.max_timestamp = FromInt(0) THEN "max_timestamp == 0"
    ELSE IF sst.max_deletion_time = FromInt(0) THEN "max_deletion_time == 0"
    ELSE IF ~sane_timestamp(sst.max_deletion_time, FromInt(1500000000),
                            deletion_time_for_never_expiring_sstable)
        THEN "max_deletion_time not sane"
    ELSE IF ~sane_timestamp(sst.min_timestamp, <<1500000000, 0>>, <<2000000000, 0>>)
        THEN "min_timestamp not sane"
    ELSE IF ~sane_timestamp(sst.max_timestamp, <<1500000000, 0>>, <<2000000000, 0>>)
        THEN "max_timestamp not sane"
    ELSE "sane"

\* the reason exit(sst, reason) is called with, "sane" when it is not called;
\* 1500000000000000 and 2000000000000000 are <<1500000000, 0>> and
\* <<2000000000, 0>> in base 10^6
sanity_check_sstable_metadata(sst) ==
    IF sst.min_timestamp = FromInt(0) THEN "min_timestamp == 0"
    ELSE IF sst.max_timestamp = FromInt(0) THEN "max_timestamp == 0"
    ELSE IF sst.max_deletion_time = FromInt(0) THEN "max_deletion_time == 0"
    ELSE IF NumLt(sst.max_timestamp, sst.min_timestamp)
        THEN "sst.max_timestamp < sst.min_timestamp"
    ELSE IF ~sane_timestamp(sst.max_deletion_time, FromInt(1500000000),
                            deletion_time_for_never_expiring_sstable)
        THEN "max_deletion_time not sane"
    ELSE IF ~sane_timestamp(sst.min_timestamp, <<1500000000, 0>>, <<2000000000, 0>>)
        THEN "min_timestamp not sane"
    ELSE IF ~sane_timestamp(sst.max_timestamp, <<1500000000, 0>>, <<2000000000, 0>>)
        THEN "max_timestamp not sane"
    ELSE "sane"

---------------------------------------------------------------------------
(* Component files and the space accountant *)

sstable_components ==
    <<"Data.db", "Index.db", "Summary.db", "Filter.db", "Scylla.db",
      "CompressionInfo.db", "CRC.db", "Statistics.db", "TOC.txt", "Digest.crc32">>

sstable_component_for_identification == "TOC.txt"

\* sstable.name.replace(sstable_component, component): the component file of
\* the group the name identifies
ComponentFile(name, component) == <<name, component>>

\* a plausible slip: CRC.db forgotten among the optional components
exit_if_failed_crc_mandatory(component) ==
    component # "CompressionInfo.db" /\ component # "Digest.crc32"

\* TRUE when sys.exit(error_msg) is called: the component is not optional
exit_if_failed_on_a_non_optional_component(component) ==
    component # "CompressionInfo.db" /\ component # "CRC.db"
        /\ component # "Digest.crc32"

\* os.stat(f).st_size of the sample files: distinct per group and component
st_size(f) ==
    LET c == CHOOSE i \in 1..Len(sstable_components) : sstable_components[i] = f[2]
    IN 1024 * 1024 * f[1] + 4096 * c

RECURSIVE total_space_loop(_, _, _, _, _)
\* the two nested loops, at sstable i and component c with the running total
total_space_loop(table, ssts, i, c, total) ==
    IF i > Len(ssts)
    THEN [status |-> "ok", mb |-> <<total, 1024 * 1024>>]
    ELSE IF c > Len(sstable_components)
    THEN total_space_loop(table, ssts, i + 1, 1, total)
    ELSE LET component == sstable_components[c]
             f == ComponentFile(ssts[i].name, component)
         IN IF f \in table
            THEN total_space_loop(table, ssts, i, c + 1, total + st_size(f))
            ELSE IF exit_if_failed_on_a_non_optional_component(component)
            THEN [status |-> "exit", msg |-> "Unabled to read size of", file |-> f]
            ELSE total_space_loop(table, ssts, i, c + 1, total)

\* table: the component files present in the table directory.  The result
\* total / (1024 * 1024) is kept as the fraction <<total, 1024 * 1024>>
\* (the division by a power of two is exact in floating point)
total_space_for_sstables_in_mb(table, ssts) ==
    total_space_loop(table, ssts, 1, 1, 0)

---------------------------------------------------------------------------
(* Token hash: the lanes are Python integers of unbounded size.  An integer *)
(* x is kept as hi * 2^63 + lo, lo in [0, 2^63) held in three 21-bit limbs, *)
(* most significant first; hi is any integer                                *)

Limb == 2^21

WideInt(hi, lo) == [hi |-> hi, lo |-> lo]

WideOne == WideInt(0, <<0, 0, 1>>)

\* x + y, carries propagated from the least significant limb
WideAdd(x, y) ==
    LET s3 == x.lo[3] + y.lo[3]
        s2 == x.lo[2] + y.lo[2] + (s3 \div Limb)
        s1 == x.lo[1] + y.lo[1] + (s2 \div Limb)
    IN WideInt(x.hi + y.hi + (s1 \div Limb),
               <<s1 % Limb, s2 % Limb, s3 % Limb>>)

\* -x: the complement of every limb and of hi, plus one
WideNeg(x) ==
    WideAdd(WideInt(-x.hi - 1,
                    <<Limb - 1 - x.lo[1], Limb - 1 - x.lo[2],
                      Limb - 1 - x.lo[3]>>),
            WideOne)

WideSub(x, y) == WideAdd(x, WideNeg(y))

\* x <= y
WideLe(x, y) ==
    \/ x.hi < y.hi
    \/ /\ x.hi = y.hi
       /\ \/ x.lo[1] < y.lo[1]
          \/ /\ x.lo[1] = y.lo[1]
             /\ \/ x.lo[2] < y.lo[2]
                \/ /\ x.lo[2] = y.lo[2]
                   /\ x.lo[3] <= y.lo[3]

\* x % d for a positive d that is a multiple of 2^63 (Python's %: the
\* result is in [0, d))
WideMod(x, d) == WideInt(x.hi % d.hi, x.lo)

\* INT64_MAX = int(2 ** 63 - 1)
INT64_MAX == WideSub(WideInt(1, <<0, 0, 0>>), WideOne)

\* INT64_MIN = -INT64_MAX - 1
INT64_MIN == WideSub(WideNeg(INT64_MAX), WideOne)

\* INT64_OVF_OFFSET = INT64_MAX + 1
INT64_OVF_OFFSET == WideAdd(INT64_MAX, WideOne)

\* INT64_OVF_DIV = 2 * INT64_OVF_OFFSET
INT64_OVF_DIV == WideAdd(INT64_OVF_OFFSET, INT64_OVF_OFFSET)

truncate_int64(x) ==
    IF ~(WideLe(INT64_MIN, x) /\ WideLe(x, INT64_MAX))
    THEN WideSub(WideMod(WideAdd(x, INT64_OVF_OFFSET), INT64_OVF_DIV),
                 INT64_OVF_OFFSET)
    ELSE x

\* the end of murmur3_token.get_token, from the two lanes fmix returned:
\* h1 += h2; return truncate_int64(h1)
get_token_result(h1, h2) == truncate_int64(WideAdd(h1, h2))

---------------------------------------------------------------------------
(* Metadata decoder: what the reads reach, by byte counts *)

\* f.read(n) from position pos of a file of size bytes: the new position
\* (n = -1 reads to the end; n < -1 raises and is handled by the caller)
ReadTo(pos, n, size) ==
    IF n = -1 \/ pos + n > size THEN size ELSE pos + n

\* summary: [size, offsetCount, offheapSize, firstSize, lastSize, first_token,
\* last_token]; the tokens stand for murmur3_token.get_token of the two keys.
\* Every struct.unpack needs exactly the bytes it names. "exception" is the
\* except branch: print(e); sys.exit(1)
get_sstable_tokens(exists, summary) ==
    LET size == summary.size
        n1 == summary.offsetCount * 4
        n2 == summary.offheapSize - n1
        p1 == ReadTo(24, n1, size)
        p2 == ReadTo(p1, n2, size)
        p3 == p2 + 4 + summary.firstSize
        p4 == p3 + 4 + summary.lastSize
    IN IF ~exists THEN [status |-> "exception", error |-> "FileNotFoundError"]
       ELSE IF size < 24 THEN [status |-> "exception", error |-> "struct.error"]
       ELSE IF n2 < -1 THEN [status |-> "exception", error |-> "ValueError"]
       ELSE IF p2 + 4 > size \/ p3 > size \/ p3 + 4 > size \/ p4 > size
       THEN [status |-> "exception", error |-> "struct.error"]
       ELSE [status |-> "ok", first_token |-> summary.first_token,
             last_token |-> summary.last_token]

\* stats: [truncated, has_stats, min_timestamp, max_timestamp,
\* max_deletion_time]: a read past the end raises (print(e); sys.exit(1));
\* no directory entry of type 2 leaves found_stats False (sys.exit with the
\* Statistics filename)
init_stats_metadata(exists, stats) ==
    IF ~exists THEN [status |-> "exception", error |-> "FileNotFoundError"]
    ELSE IF stats.truncated THEN [status |-> "exception", error |-> "struct.error"]
    ELSE IF ~stats.has_stats THEN [status |-> "no_stats"]
    ELSE [status |-> "ok", min_timestamp |-> stats.min_timestamp,
          max_timestamp |-> stats.max_timestamp,
          max_deletion_time |-> stats.max_deletion_time]

\* The reads of init_stats_metadata on the bytes of a Statistics file.  The
\* file is a sequence of 32-bit big-endian words (every field of the format
\* is a whole number of words, a 64-bit field two of them); positions are
\* byte offsets.

FileSize(file) == 4 * Len(file)

\* struct.unpack('>I', f.read(4)) at pos succeeds when four bytes are left
CanUnpack(file, pos, n) == pos + n <= FileSize(file)

U32(file, pos) == file[(pos \div 4) + 1]

\* the body of "if type == 2": f.seek(offset) and the reads down to the
\* tombstone histogram. pos: where the file stands afterwards
read_stats_component(file, offset, sstable_format) ==
    LET size == FileSize(file)
        mc == sstable_format = "mc"
        \* estimated_row_size
        p1 == ReadTo(offset + 4, 8 * 2 * U32(file, offset), size)
        \* estimated_column_count
        p2 == ReadTo(p1 + 4, 8 * 2 * U32(file, p1), size)
        \* replay position
        p3 == ReadTo(ReadTo(p2, 8, size), 4, size)
        \* min_timestamp, max_timestamp; min_local_deletion_time
        p4 == IF mc THEN ReadTo(p3 + 16, 4, size) ELSE p3 + 16
        \* max_local_deletion_time; min_ttl, max_ttl
        p5 == IF mc THEN ReadTo(ReadTo(p4 + 4, 4, size), 4, size) ELSE p4 + 4
        \* compression_ratio
        p6 == ReadTo(p5, 8, size)
        \* max_bin_size, n, the bins
        p7 == ReadTo(p6 + 8, (8 + 8) * U32(file, p6 + 4), size)
    IN IF /\ CanUnpack(file, offset, 4)
          /\ CanUnpack(file, p1, 4)
          /\ CanUnpack(file, p3, 16)
          /\ CanUnpack(file, p4, 4)
          /\ CanUnpack(file, p6, 8)
       THEN [status |-> "ok", pos |-> p7,
             min_timestamp |-> <<U32(file, p3), U32(file, p3 + 4)>>,
             max_timestamp |-> <<U32(file, p3 + 8), U32(file, p3 + 12)>>,
             max_deletion_time |-> U32(file, p4)]
       ELSE [status |-> "exception", error |-> "struct.error"]

\* for i in range(count): type and offset are read where the file stands;
\* after a Stats component was read the file stands behind that component,
\* and the next (type, offset) pair is read from there
RECURSIVE init_stats_metadata_loop(_, _, _, _, _, _, _)
init_stats_metadata_loop(file, sstable_format, count, i, pos, found, fields) ==
    IF i = count
    THEN IF found THEN fields ELSE [status |-> "no_stats"]
    ELSE IF ~CanUnpack(file, pos, 8)
    THEN [status |-> "exception", error |-> "struct.error"]
    ELSE IF U32(file, pos) = 2
    THEN LET r == read_stats_component(file, U32(file, pos + 4), sstable_format)
         IN IF r.status = "exception" THEN r
            ELSE init_stats_metadata_loop(file, sstable_format, count, i + 1,
                                          r.pos, TRUE, r)
    ELSE init_stats_metadata_loop(file, sstable_format, count, i + 1,
                                  pos + 8, found, fields)

\* init_stats_metadata on an existing file: the fields it leaves in self,
\* "exception" (print(e); sys.exit(1)) or "no_stats" (sys.exit("Unable to
\* retrieve Stats metadata from ..."))
init_stats_metadata_reads(file, sstable_format) ==
    IF ~CanUnpack(file, 0, 4)
    THEN [status |-> "exception", error |-> "struct.error"]
    ELSE LET r == init_stats_metadata_loop(file, sstable_format, U32(file, 0),
                                           0, 4, FALSE, <<>>)
         IN IF r.status # "ok" THEN r
            ELSE [status |-> "ok", min_timestamp |-> r.min_timestamp,
                  max_timestamp |-> r.max_timestamp,
                  max_deletion_time |-> r.max_deletion_time]

\* sstable_metadata_processor.__init__ followed by the sstable(...) built from
\* it: the summary is decoded first, then the statistics. names_file: whether
\* what the run exits with names the file (the text of a FileNotFoundError
\* and the missing-Stats message do, the text of a struct.error or a
\* ValueError does not)
sstable_metadata_processor(name, table, content) ==
    LET tokens == get_sstable_tokens(ComponentFile(name, "Summary.db") \in table,
                                     content.summary)
        stats == init_stats_metadata(ComponentFile(name, "Statistics.db") \in table,
                                     content.stats)
    IN IF tokens.status # "ok"
       THEN [status |-> "exception", by |-> "get_sstable_tokens",
             error |-> tokens.error,
             names_file |-> tokens.error = "FileNotFoundError"]
       ELSE IF stats.status = "exception"
       THEN [status |-> "exception", by |-> "init_stats_metadata",
             error |-> stats.error,
             names_file |-> stats.error = "FileNotFoundError"]
       ELSE IF stats.status = "no_stats"
       THEN [status |-> "no_stats", by |-> "init_stats_metadata",
             error |-> "Unable to retrieve Stats metadata", names_file |-> TRUE]
       ELSE [status |-> "ok",
             sst |-> sstable(name, stats.min_timestamp, stats.max_timestamp,
                             stats.max_deletion_time, tokens.first_token,
                             tokens.last_token)]

---------------------------------------------------------------------------
(* Input domains of the function-level specifications *)

\* files per call
MaxFiles == 3

RangePoints == {0, 10, 20, 30}

\* ranges as the program builds them: first <= last
Ranges ==
    {inclusive_range(FromInt(x), FromInt(y)) : <<x, y>> \in
        {p \in RangePoints \X RangePoints : p[1] <= p[2]}}

TokenSamples == {0, 1, 2}

TokenRanges ==
    {<<FromInt(p[1]), FromInt(p[2])>> : p \in
        {q \in TokenSamples \X TokenSamples : q[1] <= q[2]}}

\* two sane write times, in microseconds
TsSamples == {<<1600000000, 0>>, <<1600000000, 1>>}

TsRanges == {p \in TsSamples \X TsSamples : NumLe(p[1], p[2])}

\* a deletion time the sanity check accepts
SomeDeletionTime == FromInt(1600000000)

\* descriptor bodies for the resolver: token range x timestamp range
ResolverBodies == TokenRanges \X TsRanges

\* the i-th descriptor of a call, built from a body
Descriptor(i, body) ==
    sstable(i, body[2][1], body[2][2], SomeDeletionTime, body[1][1], body[1][2])

Descriptors(bodies, offset) ==
    [i \in 1..Len(bodies) |-> Descriptor(offset + i, bodies[i])]

---------------------------------------------------------------------------
(* Specification SpecOverlaps: inclusive_range.overlaps on every pair *)

InitOverlaps ==
    /\ RunIdle
    /\ pc = "call"
    /\ fn = "overlaps"
    /\ args \in Ranges \X Ranges
    /\ ret = <<>>

CallOverlaps ==
    /\ pc = "call" /\ fn = "overlaps"
    /\ ret' = overlaps(args[1], args[2])
    /\ pc' = "return"
    /\ UNCHANGED <<fn, args, runVars>>

NextOverlaps == CallOverlaps

SpecOverlaps == InitOverlaps /\ [][NextOverlaps]_vars

---------------------------------------------------------------------------
(* Specification SpecResolve: find_blockers_for_expired_sstables on every  *)
(* non-empty expired list and every non-expired list                       *)

InitResolve ==
    /\ RunIdle
    /\ pc = "call"
    /\ fn = "find_blockers_for_expired_sstables"
    /\ \E n \in 1..MaxFiles :
        \E eb \in [1..n -> ResolverBodies] :
            \E lb \in SeqsOf(ResolverBodies, 0, MaxFiles - n) :
                args = [expired_sstables |-> Descriptors(eb, 0),
                        non_expired_sstables |-> Descriptors(lb, n)]
    /\ ret = <<>>

CallResolve ==
    /\ pc = "call" /\ fn = "find_blockers_for_expired_sstables"
    /\ ret' = find_blockers_for_expired_sstables(args.expired_sstables,
                                                 args.non_expired_sstables)
    /\ pc' = "return"
    /\ UNCHANGED <<fn, args, runVars>>

NextResolve == CallResolve

SpecResolve == InitResolve /\ [][NextResolve]_vars

---------------------------------------------------------------------------
(* Specification SpecClassify: find_expired_sstables on every list of      *)
(* descriptors whose deletion time and latest write straddle gc_before     *)

\* an even second of the sane window, and the default TTLs of the calls
ClassifyEpoch == 1600 * Base

ClassifyTtls == {10}

\* latest writes just below, on and just above half a second
ClassifyMaxTimestamps ==
    {<<ClassifyEpoch, 499999>>, <<ClassifyEpoch, 500000>>,
     <<ClassifyEpoch, 500001>>, <<ClassifyEpoch + 1, 500000>>}

ClassifyDeletionTimes ==
    {FromInt(ClassifyEpoch + 10), FromInt(ClassifyEpoch + 12),
     deletion_time_for_never_expiring_sstable}

ClassifyGcBefore == {ClassifyEpoch + 11, ClassifyEpoch + 12}

ClassifyBodies == ClassifyMaxTimestamps \X ClassifyDeletionTimes

ClassifyDescriptor(i, body) ==
    sstable(i, <<ClassifyEpoch, 0>>, body[1], body[2], FromInt(0), FromInt(0))

InitClassify ==
    /\ RunIdle
    /\ pc = "call"
    /\ fn = "find_expired_sstables"
    /\ \E bodies \in SeqsOf(ClassifyBodies, 0, MaxFiles) :
        \E gc \in ClassifyGcBefore :
            \E ignore \in BOOLEAN, ttl \in ClassifyTtls :
                args = [sstables |->
                            [i \in 1..Len(bodies) |-> ClassifyDescriptor(i, bodies[i])],
                        gc_before_in_sec |-> gc,
                        default_ttl |-> ttl,
                        ignore_max_deletion_time |-> ignore]
    /\ ret = <<>>

CallClassify ==
    /\ pc = "call" /\ fn = "find_expired_sstables"
    /\ ret' = find_expired_sstables(args.sstables, args.gc_before_in_sec,
                                    args.default_ttl, args.ignore_max_deletion_time)
    /\ pc' = "return"
    /\ UNCHANGED <<fn, args, runVars>>

NextClassify == CallClassify

SpecClassify == InitClassify /\ [][NextClassify]_vars

---------------------------------------------------------------------------
(* Specification SpecScenario: three expired files with token ranges       *)
(* [0,100], [200,300], [400,500], one non-expired file with [250,260],     *)
(* every choice of timestamp ranges                                        *)

ScenarioExpiredTokens ==
    <<<<FromInt(0), FromInt(100)>>,
      <<FromInt(200), FromInt(300)>>,
      <<FromInt(400), FromInt(500)>>>>

ScenarioNonExpiredTokens == <<FromInt(250), FromInt(260)>>

InitScenario ==
    /\ RunIdle
    /\ pc = "call"
    /\ fn = "find_blockers_for_expired_sstables"
    /\ \E et \in [1..3 -> TsRanges] :
        \E lt \in TsRanges :
            args = [expired_sstables |->
                        [i \in 1..3 |-> Descriptor(i, <<ScenarioExpiredTokens[i], et[i]>>)],
                    non_expired_sstables |->
                        <<Descriptor(4, <<ScenarioNonExpiredTokens, lt>>)>>]
    /\ ret = <<>>

SpecScenario == InitScenario /\ [][NextResolve]_vars

---------------------------------------------------------------------------
(* Specification SpecSpace: total_space_for_sstables_in_mb on every list   *)
(* of file groups, each lacking any of four sample components              *)

\* the three optional components and a mandatory one
SpaceMissing == {"Data.db", "CompressionInfo.db", "CRC.db", "Digest.crc32"}

InitSpace ==
    /\ RunIdle
    /\ pc = "call"
    /\ fn = "total_space_for_sstables_in_mb"
    /\ \E n \in 0..MaxFiles :
        \E missing \in [1..n -> SUBSET SpaceMissing] :
            args = [table |->
                        UNION {{ComponentFile(g, sstable_components[c]) :
                                    c \in 1..Len(sstable_components)}
                               \ {ComponentFile(g, m) : m \in missing[g]} :
                               g \in 1..n},
                    sstables |->
                        [g \in 1..n |-> sstable(g, <<1600000000, 0>>, <<1600000000, 0>>,
                                                SomeDeletionTime, FromInt(0), FromInt(0))]]
    /\ ret = <<>>

CallSpace ==
    /\ pc = "call" /\ fn = "total_space_for_sstables_in_mb"
    /\ ret' = total_space_for_sstables_in_mb(args.table, args.sstables)
    /\ pc' = "return"
    /\ UNCHANGED <<fn, args, runVars>>

NextSpace == CallSpace

SpecSpace == InitSpace /\ [][NextSpace]_vars

---------------------------------------------------------------------------
(* Specification Spec: one run of main() over a table directory            *)

\* file groups in the table directory
NumGroups == 2

\* I/O failures on existing files (os.link, os.remove) per run
MaxFaults == 1

RunGcBefore == 1700 * Base

\* --default-ttl: 0 is refused by main
RunTtls == {0, 10}

\* what a group may lack on disk: nothing, an optional component, a
\* mandatory one, or the Summary the decoder opens
MissingSamples == {{}, {"CRC.db"}, {"Data.db"}, {"Summary.db"}}

GoodSummary ==
    [size |-> 44, offsetCount |-> 1, offheapSize |-> 8, firstSize |-> 2,
     lastSize |-> 2, first_token |-> FromInt(0), last_token |-> FromInt(1)]

\* cut inside the last key; a sample block shorter than the offset index,
\* by one byte (read(-1)) and by four (read(-4))
BadSummaries ==
    {[GoodSummary EXCEPT !.size = 43],
     [GoodSummary EXCEPT !.offsetCount = 2, !.offheapSize = 7, !.size = 100],
     [GoodSummary EXCEPT !.offsetCount = 2, !.offheapSize = 4, !.size = 100]}

Stats(min_timestamp, max_timestamp, max_deletion_time) ==
    [truncated |-> FALSE, has_stats |-> TRUE, min_timestamp |-> min_timestamp,
     max_timestamp |-> max_timestamp, max_deletion_time |-> max_deletion_time]

\* the ends of the sane window, as one-instant write ranges
EarlyTs == <<1500000000, 0>>

LateTs == <<2000000000, 0>>

\* expired (the lowest sane value), live, never expiring
RunDeletionTimes ==
    {FromInt(1500000000), FromInt(RunGcBefore),
     deletion_time_for_never_expiring_sstable}

SaneStats ==
    {Stats(t, t, d) : t \in {EarlyTs, LateTs}, d \in RunDeletionTimes}

\* one sample per rejection of the validator
InsaneStats ==
    {Stats(FromInt(0), EarlyTs, FromInt(1500000000)),
     Stats(<<-1, 0>>, FromInt(0), FromInt(1500000000)),
     Stats(EarlyTs, EarlyTs, FromInt(0)),
     Stats(LateTs, EarlyTs, FromInt(1500000000)),
     Stats(EarlyTs, EarlyTs, FromInt(1499999999)),
     Stats(EarlyTs, EarlyTs, <<2147, 483648>>),
     Stats(<<1499999999, 999999>>, EarlyTs, FromInt(1500000000)),
     Stats(LateTs, <<2000000000, 1>>, FromInt(1500000000))}

BadStats ==
    {[Stats(EarlyTs, EarlyTs, FromInt(1500000000)) EXCEPT !.truncated = TRUE],
     [Stats(EarlyTs, EarlyTs, FromInt(1500000000)) EXCEPT !.has_stats = FALSE]}

\* the Summary and Statistics files of one group
FileSamples ==
    {[summary |-> GoodSummary, stats |-> st] :
        st \in SaneStats \cup InsaneStats \cup BadStats}
    \cup {[summary |-> su, stats |-> Stats(EarlyTs, EarlyTs, FromInt(1500000000))] :
        su \in BadSummaries}

GroupFiles(g, missing) ==
    {ComponentFile(g, sstable_components[c]) : c \in 1..Len(sstable_components)}
        \ {ComponentFile(g, m) : m \in missing}

Init ==
    /\ pc = "start"
    /\ fn = "main" /\ args = <<>> /\ ret = <<>>
    /\ opts \in [dest : BOOLEAN, default_ttl : RunTtls,
                 gc_before_in_sec : {RunGcBefore},
                 ignore_max_deletion_time : BOOLEAN]
    /\ env \in [table_isdir : BOOLEAN, dest_isdir : BOOLEAN,
                scylla : {"running", "not_running", "raises"}]
    /\ liveness = "unconsulted"
    /\ \E n \in 0..NumGroups :
        \E missing \in [1..n -> MissingSamples] :
            /\ disk = UNION {GroupFiles(g, missing[g]) : g \in 1..n}
            /\ listing = [g \in 1..n |-> g]
    /\ backup = {}
    /\ decoded = <<>>
    /\ sstables = <<>>
    /\ expired_sstables = <<>> /\ non_expired_sstables = <<>>
    /\ blocked_expired_ssts = <<>> /\ non_blocked_expired_ssts = <<>>
    /\ space = <<>>
    /\ cursor = <<>>
    /\ removed = {} /\ link_failed = {}
    /\ faults = 0
    /\ exit_msg = <<>>

\* sys.exit(...) or an uncaught exception: the run ends here
Exit(msg) ==
    /\ pc' = "exit"
    /\ exit_msg' = msg

\* main's sanity checks of its arguments
CheckArguments ==
    /\ pc = "start"
    /\ IF ~env.table_isdir
       THEN Exit([by |-> "main", msg |-> "Unable to find table directory"])
       ELSE IF opts.default_ttl = 0
       THEN Exit([by |-> "main", msg |-> "This script likely wants a default TTL > 0"])
       ELSE pc' = "check_move" /\ UNCHANGED exit_msg
    /\ UNCHANGED <<fnVars, opts, env, liveness, disk, backup, listing, decoded,
                   sstables, expired_sstables, non_expired_sstables,
                   blocked_expired_ssts, non_blocked_expired_ssts, space, cursor,
                   removed, link_failed, faults>>

\* a plausible slip: the answer of is_scylla_running not acted upon
CheckMoveAllowed_ignoring_answer ==
    /\ pc = "check_move"
    /\ IF opts.dest
       THEN /\ liveness' = env.scylla
            /\ IF ~env.dest_isdir
               THEN Exit([by |-> "main", msg |-> "Unable to find directory"])
               ELSE pc' = "process" /\ UNCHANGED exit_msg
       ELSE pc' = "process" /\ UNCHANGED <<liveness, exit_msg>>
    /\ UNCHANGED <<fnVars, opts, env, disk, backup, listing, decoded,
                   sstables, expired_sstables, non_expired_sstables,
                   blocked_expired_ssts, non_blocked_expired_ssts, space, cursor,
                   removed, link_failed, faults>>

\* sanity checks for the safe move: is_scylla_running() is consulted only
\* when a destination was given; psutil may raise on a process that is gone
CheckMoveAllowed ==
    /\ pc = "check_move"
    /\ IF opts.dest
       THEN /\ liveness' = env.scylla
            /\ IF env.scylla = "raises"
               THEN Exit([by |-> "is_scylla_running", msg |-> "uncaught exception"])
               ELSE IF env.scylla = "running"
               THEN Exit([by |-> "main", msg |-> "Running Scylla instance detected"])
               ELSE IF ~env.dest_isdir
               THEN Exit([by |-> "main", msg |-> "Unable to find directory"])
               ELSE pc' = "process" /\ UNCHANGED exit_msg
       ELSE pc' = "process" /\ UNCHANGED <<liveness, exit_msg>>
    /\ UNCHANGED <<fnVars, opts, env, disk, backup, listing, decoded,
                   sstables, expired_sstables, non_expired_sstables,
                   blocked_expired_ssts, non_blocked_expired_ssts, space, cursor,
                   removed, link_failed, faults>>

\* a plausible slip: a file that fails to decode is skipped
ProcessEntry_skipping_failures ==
    /\ pc = "process" /\ listing # <<>>
    /\ \E content \in FileSamples :
        LET entry == Head(listing)
            metadata == sstable_metadata_processor(entry, disk, content)
        IN IF metadata.status # "ok"
           THEN /\ decoded' = Append(decoded, [name |-> entry, status |-> metadata.status,
                                               by |-> metadata.by,
                                               error |-> metadata.error])
                /\ UNCHANGED <<pc, exit_msg, sstables>>
           ELSE LET reason == sanity_check_sstable_metadata(metadata.sst)
                IN /\ decoded' = Append(decoded, [name |-> entry, status |-> "ok",
                                                  sst |-> metadata.sst])
                   /\ IF reason # "sane"
                      THEN /\ Exit([by |-> "sanity_check_sstable_metadata",
                                    msg |-> reason, names_file |-> TRUE])
                           /\ UNCHANGED sstables
                      ELSE /\ sstables' = Append(sstables, metadata.sst)
                           /\ UNCHANGED <<pc, exit_msg>>
    /\ listing' = Tail(listing)
    /\ UNCHANGED <<fnVars, opts, env, liveness, disk, backup,
                   expired_sstables, non_expired_sstables,
                   blocked_expired_ssts, non_blocked_expired_ssts, space, cursor,
                   removed, link_failed, faults>>

\* one iteration of process_sstables' loop over the TOC entries: decode,
\* build the sstable, validate, append. The decoder's sys.exit and the
\* validator's exit raise SystemExit, which "except Exception" does not
\* catch: the run ends with the decoder's or the validator's own message
ProcessEntry ==
    /\ pc = "process" /\ listing # <<>>
    /\ \E content \in FileSamples :
        LET entry == Head(listing)
            metadata == sstable_metadata_processor(entry, disk, content)
        IN IF metadata.status # "ok"
           THEN /\ decoded' = Append(decoded, [name |-> entry, status |-> metadata.status,
                                               by |-> metadata.by,
                                               error |-> metadata.error])
                /\ Exit([by |-> metadata.by, names_file |-> metadata.names_file])
                /\ UNCHANGED sstables
           ELSE LET reason == sanity_check_sstable_metadata(metadata.sst)
                IN /\ decoded' = Append(decoded, [name |-> entry, status |-> "ok",
                                                  sst |-> metadata.sst])
                   /\ IF reason # "sane"
                      THEN /\ Exit([by |-> "sanity_check_sstable_metadata",
                                    msg |-> reason, names_file |-> TRUE])
                           /\ UNCHANGED sstables
                      ELSE /\ sstables' = Append(sstables, metadata.sst)
                           /\ UNCHANGED <<pc, exit_msg>>
    /\ listing' = Tail(listing)
    /\ UNCHANGED <<fnVars, opts, env, liveness, disk, backup,
                   expired_sstables, non_expired_sstables,
                   blocked_expired_ssts, non_blocked_expired_ssts, space, cursor,
                   removed, link_failed, faults>>

\* process_sstables returns; find_expired_sstables
FindExpired ==
    /\ pc = "process" /\ listing = <<>>
    /\ LET r == find_expired_sstables(sstables, opts.gc_before_in_sec,
                                      opts.default_ttl, opts.ignore_max_deletion_time)
       IN /\ expired_sstables' = r.expired
          /\ non_expired_sstables' = r.non_expired
    /\ pc' = "dump_expired"
    /\ UNCHANGED <<fnVars, opts, env, liveness, disk, backup, listing, decoded,
                   sstables, blocked_expired_ssts, non_blocked_expired_ssts, space,
                   cursor, removed, link_failed, faults, exit_msg>>

\* one call of the space accountant from main: its result is reported, or
\* the run exits on a missing mandatory component
Account(ssts, next) ==
    LET r == total_space_for_sstables_in_mb(disk, ssts)
    IN IF r.status = "exit"
       THEN /\ Exit([by |-> "total_space_for_sstables_in_mb", msg |-> r.msg,
                     file |-> r.file])
            /\ UNCHANGED space
       ELSE /\ space' = Append(space, r.mb)
            /\ pc' = next
            /\ UNCHANGED exit_msg

\* dump_expired_sstables: the space of the expired files whose deletion
\* time was ignored, when there are any
DumpExpired ==
    /\ pc = "dump_expired"
    /\ LET ignores(s) == ignores_max_deletion_time(s, opts.ignore_max_deletion_time)
           expired_ssts_which_ignored_max_deletion_time ==
               SelectSeq(expired_sstables, ignores)
       IN IF Len(expired_ssts_which_ignored_max_deletion_time) > 0
          THEN Account(expired_ssts_which_ignored_max_deletion_time, "account_expired")
          ELSE pc' = "account_expired" /\ UNCHANGED <<space, exit_msg>>
    /\ UNCHANGED <<fnVars, opts, env, liveness, disk, backup, listing, decoded,
                   sstables, expired_sstables, non_expired_sstables,
                   blocked_expired_ssts, non_blocked_expired_ssts, cursor, removed,
                   link_failed, faults>>

\* the space of all expired files; the run is over when there are none
AccountExpired ==
    /\ pc = "account_expired"
    /\ Account(expired_sstables,
               IF Len(expired_sstables) > 0 THEN "find_blockers" ELSE "done")
    /\ UNCHANGED <<fnVars, opts, env, liveness, disk, backup, listing, decoded,
                   sstables, expired_sstables, non_expired_sstables,
                   blocked_expired_ssts, non_blocked_expired_ssts, cursor, removed,
                   link_failed, faults>>

FindBlockers ==
    /\ pc = "find_blockers"
    /\ LET r == find_blockers_for_expired_sstables(expired_sstables,
                                                   non_expired_sstables)
       IN /\ blocked_expired_ssts' = r.blocked
          /\ non_blocked_expired_ssts' = r.non_blocked
    /\ pc' = "account_non_blocked"
    /\ UNCHANGED <<fnVars, opts, env, liveness, disk, backup, listing, decoded,
                   sstables, expired_sstables, non_expired_sstables, space, cursor,
                   removed, link_failed, faults, exit_msg>>

\* the sanity check before the move: every component of the non-blocked
\* files can be found
AccountNonBlocked ==
    /\ pc = "account_non_blocked"
    /\ Account(non_blocked_expired_ssts, "account_blocked")
    /\ UNCHANGED <<fnVars, opts, env, liveness, disk, backup, listing, decoded,
                   sstables, expired_sstables, non_expired_sstables,
                   blocked_expired_ssts, non_blocked_expired_ssts, cursor, removed,
                   link_failed, faults>>

AccountBlocked ==
    /\ pc = "account_blocked"
    /\ Account(blocked_expired_ssts, IF opts.dest THEN "move" ELSE "done")
    /\ cursor' = IF opts.dest THEN [i |-> 1, phase |-> "link", c |-> 1] ELSE cursor
    /\ UNCHANGED <<fnVars, opts, env, liveness, disk, backup, listing, decoded,
                   sstables, expired_sstables, non_expired_sstables,
                   blocked_expired_ssts, non_blocked_expired_ssts, removed,
                   link_failed, faults>>

\* the next step of move_non_blocked_expired_ssts_to's loops
Advance(cur) ==
    IF cur.c < Len(sstable_components) THEN [cur EXCEPT !.c = cur.c + 1]
    ELSE IF cur.phase = "link" THEN [cur EXCEPT !.phase = "remove", !.c = 1]
    ELSE [i |-> cur.i + 1, phase |-> "link", c |-> 1]

\* the except branch of a link or a remove
AfterFailure(component, msg, f) ==
    IF exit_if_failed_on_a_non_optional_component(component)
    THEN /\ Exit([by |-> "move_non_blocked_expired_ssts_to", msg |-> msg, file |-> f])
         /\ UNCHANGED cursor
    ELSE /\ cursor' = Advance(cursor)
         /\ UNCHANGED <<pc, exit_msg>>

\* a plausible slip: main handing every expired file to the move
LinkComponent_of_every_expired ==
    /\ pc = "move" /\ cursor.i <= Len(expired_sstables)
    /\ cursor.phase = "link"
    /\ LET component == sstable_components[cursor.c]
           f == ComponentFile(expired_sstables[cursor.i].name, component)
       IN \/ /\ f \in disk
             /\ backup' = backup \cup {f}
             /\ cursor' = Advance(cursor)
             /\ UNCHANGED <<pc, exit_msg, link_failed, faults>>
          \/ /\ f \notin disk \/ faults < MaxFaults
             /\ link_failed' = link_failed \cup {f}
             /\ faults' = IF f \in disk THEN faults + 1 ELSE faults
             /\ AfterFailure(component, "Unabled to link SSTable component", f)
             /\ UNCHANGED backup
    /\ UNCHANGED <<fnVars, opts, env, liveness, disk, listing, decoded,
                   sstables, expired_sstables, non_expired_sstables,
                   blocked_expired_ssts, non_blocked_expired_ssts, space, removed>>

\* os.link of one component into the destination directory: it raises when
\* the file is missing, and may raise for an existing file
LinkComponent ==
    /\ pc = "move" /\ cursor.i <= Len(non_blocked_expired_ssts)
    /\ cursor.phase = "link"
    /\ LET component == sstable_components[cursor.c]
           f == ComponentFile(non_blocked_expired_ssts[cursor.i].name, component)
       IN \/ /\ f \in disk
             /\ backup' = backup \cup {f}
             /\ cursor' = Advance(cursor)
             /\ UNCHANGED <<pc, exit_msg, link_failed, faults>>
          \/ /\ f \notin disk \/ faults < MaxFaults
             /\ link_failed' = link_failed \cup {f}
             /\ faults' = IF f \in disk THEN faults + 1 ELSE faults
             /\ AfterFailure(component, "Unabled to link SSTable component", f)
             /\ UNCHANGED backup
    /\ UNCHANGED <<fnVars, opts, env, liveness, disk, listing, decoded,
                   sstables, expired_sstables, non_expired_sstables,
                   blocked_expired_ssts, non_blocked_expired_ssts, space, removed>>

\* os.remove of one component from the table directory
RemoveComponent ==
    /\ pc = "move" /\ cursor.i <= Len(non_blocked_expired_ssts)
    /\ cursor.phase = "remove"
    /\ LET component == sstable_components[cursor.c]
           f == ComponentFile(non_blocked_expired_ssts[cursor.i].name, component)
       IN \/ /\ f \in disk
             /\ disk' = disk \ {f}
             /\ removed' = removed \cup {f}
             /\ cursor' = Advance(cursor)
             /\ UNCHANGED <<pc, exit_msg, faults>>
          \/ /\ f \notin disk \/ faults < MaxFaults
             /\ faults' = IF f \in disk THEN faults + 1 ELSE faults
             /\ AfterFailure(component, "Unabled to delete SSTable component", f)
             /\ UNCHANGED <<disk, removed>>
    /\ UNCHANGED <<fnVars, opts, env, liveness, backup, listing, decoded,
                   sstables, expired_sstables, non_expired_sstables,
                   blocked_expired_ssts, non_blocked_expired_ssts, space,
                   link_failed>>

\* every non-blocked file was moved: the reclaimed space is reported
MoveDone ==
    /\ pc = "move" /\ cursor.i > Len(non_blocked_expired_ssts)
    /\ pc' = "done"
    /\ UNCHANGED <<fnVars, runVars>>

Next ==
    \/ CheckArguments
    \/ CheckMoveAllowed
    \/ ProcessEntry
    \/ FindExpired
    \/ DumpExpired
    \/ AccountExpired
    \/ FindBlockers
    \/ AccountNonBlocked
    \/ AccountBlocked
    \/ LinkComponent
    \/ RemoveComponent
    \/ MoveDone

Spec == Init /\ [][Next]_vars

---------------------------------------------------------------------------
(* Specification SpecToken: the last step of murmur3_token.get_token on     *)
(* lanes around every multiple of 2^63 up to MaxLaneHigh                    *)

\* the lanes' high parts range over -MaxLaneHigh..MaxLaneHigh
MaxLaneHigh == 3

LimbSamples == {0, 1, Limb - 1}

\* first lanes: every high part with every combination of extreme limbs
LaneSamples ==
    {WideInt(hi, lo) : hi \in -MaxLaneHigh..MaxLaneHigh,
                       lo \in LimbSamples \X LimbSamples \X LimbSamples}

\* second lanes: small values of either sign
SecondLaneSamples ==
    {WideInt(0, <<0, 0, 0>>), WideOne, WideNeg(WideOne)}

InitToken ==
    /\ RunIdle
    /\ pc = "call"
    /\ fn = "get_token"
    /\ args \in LaneSamples \X SecondLaneSamples
    /\ ret = <<>>

CallToken ==
    /\ pc = "call" /\ fn = "get_token"
    /\ ret' = get_token_result(args[1], args[2])
    /\ pc' = "return"
    /\ UNCHANGED <<fn, args, runVars>>

NextToken == CallToken

SpecToken == InitToken /\ [][NextToken]_vars

---------------------------------------------------------------------------
(* Specification SpecStats: init_stats_metadata on Statistics files with a  *)
(* directory of up to MaxComponents entries, at most one of them of type 2,  *)
(* at every position, a well-formed Stats component, and up to MaxRest       *)
(* further pairs of words behind it                                          *)

\* directory entries per file (the mc format writes four components)
MaxComponents == 4

\* pairs of words behind what init_stats_metadata reads of the Stats
\* component
MaxRest == 1

\* metadata types: validation, compaction, stats, serialization header
ComponentTypes == {0, 1, 2, 3}

StatsFormats == {"la", "mc"}

Flatten(pairs) ==
    [k \in 1..(2 * Len(pairs)) |-> pairs[(k + 1) \div 2][2 - (k % 2)]]

\* the Stats component down to the tombstone histogram, both histograms
\* before it with rows buckets, no bins: write times 1600000000000010 and
\* 1600000000000020 microseconds as two words each
StatsComponent(sstable_format, rows) ==
    <<rows>> \o [k \in 1..(4 * rows) |-> 7] \o <<0>>
        \o <<0, 0, 0>>
        \o <<372529, 10>> \o <<372529, 20>>
        \o (IF sstable_format = "mc" THEN <<1500000000>> ELSE <<>>)
        \o <<1600000000>>
        \o (IF sstable_format = "mc" THEN <<0, 0>> ELSE <<>>)
        \o <<0, 0>>
        \o <<100, 0>>

\* where the Stats component starts in a file of count directory entries
StatsOffset(count) == 4 * (1 + 2 * count)

\* the directory, the Stats component, the rest: every entry of type 2
\* points at the Stats component, every other entry behind it
StatsFile(types, sstable_format, rows, rest) ==
    LET count == Len(types)
        component == StatsComponent(sstable_format, rows)
        behind == StatsOffset(count) + 4 * Len(component)
        entry(i) == <<types[i],
                      IF types[i] = 2 THEN StatsOffset(count) ELSE behind>>
    IN <<count>> \o Flatten([i \in 1..count |-> entry(i)])
                \o component \o Flatten(rest)

\* what may stand behind the part of the Stats component that is read:
\* sstable_level and the first half of repaired_at (level 0, level 2), or
\* words that read as a type-2 entry pointing one word into the component
RestPairs(count) == {<<0, 0>>, <<2, 0>>, <<2, StatsOffset(count) + 4>>}

InitStats ==
    /\ RunIdle
    /\ pc = "call"
    /\ fn = "init_stats_metadata"
    /\ \E types \in SeqsOf(ComponentTypes, 1, MaxComponents) :
        \E rest \in SeqsOf(RestPairs(Len(types)), 0, MaxRest) :
            \E sstable_format \in StatsFormats, rows \in {0, 1} :
                /\ Cardinality({i \in 1..Len(types) : types[i] = 2}) <= 1
                /\ args = [file |-> StatsFile(types, sstable_format, rows, rest),
                           sstable_format |-> sstable_format]
    /\ ret = <<>>

CallStats ==
    /\ pc = "call" /\ fn = "init_stats_metadata"
    /\ ret' = init_stats_metadata_reads(args.file, args.sstable_format)
    /\ pc' = "return"
    /\ UNCHANGED <<fn, args, runVars>>

NextStats == CallStats

SpecStats == InitStats /\ [][NextStats]_vars

---------------------------------------------------------------------------
(* Closed-interval intersection, stated independently of overlaps *)

Intersect(a, b) == NumLe(a.first, b.last) /\ NumLe(b.first, a.last)

TokenRangeOf(s) == [first |-> s.first_token, last |-> s.last_token]

TimestampRangeOf(s) == [first |-> s.min_timestamp, last |-> s.max_timestamp]

\* number of positions of sequence s holding x
Occurrences(s, x) == Cardinality({i \in 1..Len(s) : s[i] = x})

Returned(f) == pc = "return" /\ fn = f

---------------------------------------------------------------------------
(* C10 *)

\* C10: overlaps(a, b) is true iff the closed intervals intersect
\* (a.first <= b.last and b.first <= a.last); it is symmetric; every range
\* overlaps itself; [0,10] and [20,30] do not overlap; [0,10] and [10,20] do.
C10_OverlapsIsIntersection ==
    Returned("overlaps") =>
        LET a == args[1]
            b == args[2]
            R(x, y) == inclusive_range(FromInt(x), FromInt(y))
        IN /\ ret <=> Intersect(a, b)
           /\ ret = overlaps(b, a)
           /\ a = b => ret
           /\ (a = R(0, 10) /\ b = R(20, 30)) => ~ret
           /\ (a = R(0, 10) /\ b = R(10, 20)) => ret

\* the inclusive boundary: [10,20] against [0,10], second disjunct of the test
C10_Witness ==
    /\ Returned("overlaps")
    /\ args = <<inclusive_range(FromInt(10), FromInt(20)),
                inclusive_range(FromInt(0), FromInt(10))>>
    /\ ret = TRUE

---------------------------------------------------------------------------
(* C1, C2, C7 *)

\* C1: no false negatives: no file e of the non-blocked result has a file l
\* of the non-expired input whose token range intersects e's token range
\* and whose timestamp range intersects e's timestamp range.
C1_NoFalseNegatives ==
    Returned("find_blockers_for_expired_sstables") =>
        \A e \in SeqToSet(ret.non_blocked) :
            \A l \in SeqToSet(args.non_expired_sstables) :
                ~(/\ Intersect(TokenRangeOf(e), TokenRangeOf(l))
                  /\ Intersect(TimestampRangeOf(e), TimestampRangeOf(l)))

\* a non-blocked file whose token range a live file intersects (their
\* timestamp ranges being disjoint), next to a blocked one
C1_Witness ==
    /\ Returned("find_blockers_for_expired_sstables")
    /\ Len(ret.blocked) > 0
    /\ \E e \in SeqToSet(ret.non_blocked) :
        \E l \in SeqToSet(args.non_expired_sstables) :
            Intersect(TokenRangeOf(e), TokenRangeOf(l))

\* the envelope U and the candidates of C2, from the arguments alone
C2_U ==
    LET E == SeqToSet(args.expired_sstables)
        lo == CHOOSE e \in E : \A x \in E : NumLe(e.first_token, x.first_token)
        hi == CHOOSE e \in E : \A x \in E : NumLe(x.last_token, e.last_token)
    IN [first |-> lo.first_token, last |-> hi.last_token]

C2_Candidates ==
    {l \in SeqToSet(args.non_expired_sstables) : Intersect(TokenRangeOf(l), C2_U)}

C2_IsBlocked(e) ==
    \E c \in C2_Candidates : Intersect(TimestampRangeOf(e), TimestampRangeOf(c))

\* C2: e is in Blocked iff some candidate (a non-expired file whose token
\* range intersects the envelope U of the expired set) has a timestamp range
\* intersecting e's; NonBlocked = E \ Blocked; every e appears exactly once,
\* in exactly one of the two results.
C2_BlockedIffCandidateOverlap ==
    Returned("find_blockers_for_expired_sstables") =>
        LET E == SeqToSet(args.expired_sstables)
        IN /\ SeqToSet(ret.blocked) = {e \in E : C2_IsBlocked(e)}
           /\ SeqToSet(ret.non_blocked) = E \ SeqToSet(ret.blocked)
           /\ \A e \in E :
                Occurrences(ret.blocked, e) + Occurrences(ret.non_blocked, e) = 1

\* an expired file blocked by a candidate that intersects the envelope but
\* not the file's own token range, with another file left non-blocked
C2_Witness ==
    /\ Returned("find_blockers_for_expired_sstables")
    /\ Len(ret.non_blocked) > 0
    /\ \E e \in SeqToSet(ret.blocked) :
        \A l \in SeqToSet(args.non_expired_sstables) :
            ~Intersect(TokenRangeOf(e), TokenRangeOf(l))

\* the scenario's premise: the non-expired file's timestamp range
\* intersects the timestamp range of each expired file
C7_TimestampsOverlap ==
    \A i \in 1..3 :
        Intersect(TimestampRangeOf(args.expired_sstables[i]),
                  TimestampRangeOf(args.non_expired_sstables[1]))

\* C7 as stated: only the second expired file ([200,300]) is blocked, the
\* other two are non-blocked.
C7_OnlySecondBlocked ==
    (Returned("find_blockers_for_expired_sstables") /\ C7_TimestampsOverlap) =>
        /\ ret.blocked = <<args.expired_sstables[2]>>
        /\ ret.non_blocked = <<args.expired_sstables[1], args.expired_sstables[3]>>

\* C7 amended: the non-expired file [250,260] intersects the envelope
\* [0,500] of the expired set, so all three expired files are blocked.
C7_AllThreeBlocked ==
    (Returned("find_blockers_for_expired_sstables") /\ C7_TimestampsOverlap) =>
        /\ ret.blocked = args.expired_sstables
        /\ ret.non_blocked = <<>>

C7_Witness ==
    /\ Returned("find_blockers_for_expired_sstables")
    /\ C7_TimestampsOverlap
    /\ Len(ret.blocked) = 3

---------------------------------------------------------------------------
(* C3 *)

\* r is round(timestamp / 1_000_000): an integer nearest to the quotient,
\* the even one when the quotient lies exactly between two integers
C3_IsRounded(r, timestamp) ==
    LET hi == timestamp[1]
        lo == timestamp[2]
        \* twice the distance from r to the quotient, in microseconds
        dist2 == IF r = hi THEN 2 * lo ELSE 2 * (Base - lo)
    IN /\ r \in {hi, hi + 1}
       /\ dist2 <= Base
       /\ dist2 = Base => r % 2 = 0

\* effective_deletion_time(d) < gc_before, the sentinel not being used in
\* the comparison when the override applies
C3_EffectiveBefore(d) ==
    IF d.max_deletion_time = <<2147, 483647>> /\ args.ignore_max_deletion_time
    THEN \E r \in {d.max_timestamp[1], d.max_timestamp[1] + 1} :
            /\ C3_IsRounded(r, d.max_timestamp)
            /\ r + args.default_ttl < args.gc_before_in_sec
    ELSE NumLt(d.max_deletion_time, FromInt(args.gc_before_in_sec))

\* C3: find_expired_sstables puts every descriptor in exactly one of the
\* expired / non-expired results, and d is expired iff
\* effective_deletion_time(d) < gc_before, where effective_deletion_time is
\* max_deletion_time unless it is the sentinel 2147483647 and the override
\* flag is set, in which case it is round(max_timestamp / 1_000_000) + default_ttl.
C3_ExpiredIffEffectiveBefore ==
    Returned("find_expired_sstables") =>
        LET S == SeqToSet(args.sstables)
        IN /\ SeqToSet(ret.expired) \cup SeqToSet(ret.non_expired) = S
           /\ \A d \in S :
                /\ Occurrences(ret.expired, d) + Occurrences(ret.non_expired, d) = 1
                /\ d \in SeqToSet(ret.expired) <=> C3_EffectiveBefore(d)

\* the override decides both ways in one call: a sentinel file found expired
\* through its rounded latest write, another sentinel file found non-expired
C3_Witness ==
    /\ Returned("find_expired_sstables")
    /\ args.ignore_max_deletion_time
    /\ \E d \in SeqToSet(ret.expired) :
        d.max_deletion_time = <<2147, 483647>>
    /\ \E d \in SeqToSet(ret.non_expired) :
        /\ d.max_deletion_time = <<2147, 483647>>
        /\ d.max_timestamp[2] > 500000

---------------------------------------------------------------------------
(* C4 *)

\* the file groups some component of which was removed from the table
\* directory
C4_TouchedGroups == {f[1] : f \in removed}

\* C4: for every outcome of the link and remove operations, every component
\* of a group that existed in the source directory is present at the
\* destination before any component of the group is removed from the
\* source; no component is removed whose link into the destination failed.
C4_AllLinkedBeforeAnyRemoved ==
    /\ \A g \in C4_TouchedGroups :
        \A f \in disk \cup removed : f[1] = g => f \in backup
    /\ removed \cap link_failed = {}

---------------------------------------------------------------------------
(* C5 *)

\* the rejections the validator is to make, on the base-10^6 digits
C5_Rejected(d) ==
    LET In(x, lo, hi) == NumLe(lo, x) /\ NumLe(x, hi)
    IN \/ d.min_timestamp = <<0, 0>>
       \/ d.max_timestamp = <<0, 0>>
       \/ d.max_deletion_time = <<0, 0>>
       \/ NumLt(d.max_timestamp, d.min_timestamp)
       \/ ~In(d.max_deletion_time, <<1500, 0>>, <<2147, 483647>>)
       \/ ~In(d.min_timestamp, <<1500000000, 0>>, <<2000000000, 0>>)
       \/ ~In(d.max_timestamp, <<1500000000, 0>>, <<2000000000, 0>>)

\* C5: the validator is applied to every decoded descriptor before
\* classification and aborts the whole run on any of the listed conditions
\* (a descriptor with max_timestamp < min_timestamp whatever its other
\* fields); every descriptor that reaches find_expired_sstables satisfies
\* min_timestamp <= max_timestamp and all of the bounds.
C5_OnlySaneDescriptorsAreClassified ==
    /\ \A i \in 1..Len(decoded) :
        (decoded[i].status = "ok" /\ C5_Rejected(decoded[i].sst)) =>
            /\ pc = "exit"
            /\ exit_msg.by = "sanity_check_sstable_metadata"
            /\ i = Len(decoded)
            /\ decoded[i].sst \notin SeqToSet(sstables)
            /\ expired_sstables = <<>> /\ non_expired_sstables = <<>>
    /\ \A d \in SeqToSet(sstables) \cup SeqToSet(expired_sstables)
                \cup SeqToSet(non_expired_sstables) :
        /\ ~C5_Rejected(d)
        /\ NumLe(d.min_timestamp, d.max_timestamp)
    /\ pc \notin {"start", "check_move", "process", "exit"} =>
        sstables = [i \in 1..Len(decoded) |-> decoded[i].sst]

\* a second descriptor, whose only defect is max_timestamp < min_timestamp,
\* ends the run after a first one was accepted
C5_Witness ==
    /\ pc = "exit"
    /\ Len(decoded) = 2 /\ Len(sstables) = 1
    /\ decoded[2].status = "ok"
    /\ exit_msg.msg = "sst.max_timestamp < sst.min_timestamp"
    /\ decoded[2].sst.min_timestamp = <<2000000000, 0>>
    /\ decoded[2].sst.max_timestamp = <<1500000000, 0>>

---------------------------------------------------------------------------
(* C6 *)

\* C6: a link or remove of any component happens only after the liveness
\* check was consulted and returned 'not running'; if it reports a running
\* storage engine (a destination was given), the run terminates before
\* decoding, classifying or moving anything.
C6_MoveOnlyAfterNotRunning ==
    /\ (backup # {} \/ removed # {} \/ link_failed # {} \/ pc = "move") =>
        liveness = "not_running"
    /\ liveness = "running" =>
        /\ opts.dest
        /\ pc = "exit"
        /\ decoded = <<>> /\ sstables = <<>>
        /\ expired_sstables = <<>> /\ non_expired_sstables = <<>>
        /\ blocked_expired_ssts = <<>> /\ non_blocked_expired_ssts = <<>>
        /\ backup = {} /\ removed = {} /\ link_failed = {}

\* components were linked and removed, the check having said 'not running'
C6_Witness ==
    /\ liveness = "not_running"
    /\ backup # {} /\ removed # {}

---------------------------------------------------------------------------
(* C8 *)

---------------------------------------------------------------------------
(* C9 *)

C9_Optional == {"CompressionInfo.db", "CRC.db", "Digest.crc32"}

C9_Mandatory == SeqToSet(sstable_components) \ C9_Optional

RECURSIVE C9_Sum(_)
\* the sizes of a set of files, added up
C9_Sum(files) ==
    IF files = {} THEN 0
    ELSE LET f == CHOOSE x \in files : TRUE
         IN st_size(f) + C9_Sum(files \ {f})

\* C9: a missing optional component (CompressionInfo, CRC, Digest)
\* contributes zero and raises no error, so the result is the sum of the
\* present components' sizes (in MB); a missing mandatory component is a
\* fatal error.
C9_SumOfPresentOrFatal ==
    Returned("total_space_for_sstables_in_mb") =>
        LET names == {args.sstables[i].name : i \in 1..Len(args.sstables)}
            lacks_mandatory ==
                \E n \in names : \E c \in C9_Mandatory : <<n, c>> \notin args.table
        IN IF lacks_mandatory
           THEN ret.status = "exit"
           ELSE /\ ret.status = "ok"
                /\ ret.mb = <<C9_Sum({f \in args.table : f[1] \in names}), 1048576>>

\* a group without its CRC component, nothing mandatory missing
C9_Witness ==
    /\ Returned("total_space_for_sstables_in_mb")
    /\ ret.status = "ok"
    /\ Len(args.sstables) = 2
    /\ <<1, "CRC.db">> \notin args.table
    /\ <<1, "Data.db">> \in args.table

---------------------------------------------------------------------------
(* C11 *)

\* the non-expired list of the call with one more file appended
C11_WithOneMore(b) ==
    Append(args.non_expired_sstables,
           Descriptor(Len(args.expired_sstables)
                        + Len(args.non_expired_sstables) + 1, b))

\* the result of the resolver on the same expired list and the longer
\* non-expired list
C11_ResultWithOneMore(b) ==
    find_blockers_for_expired_sstables(args.expired_sstables,
                                       C11_WithOneMore(b))

\* the additional file: inside or outside the envelope, before, after or
\* across the sampled write times
C11_MoreBodies ==
    {b \in ResolverBodies : b[1] \in {<<FromInt(0), FromInt(0)>>,
                                       <<FromInt(2), FromInt(2)>>}}

\* C11: blocker resolution is monotonic in the non-expired set: for every
\* expired list E, non-expired list L and additional non-expired file l,
\* Blocked(E, L) is a subset of Blocked(E, L + l); no file blocked under L is
\* non-blocked under L + l.
C11_MonotonicInNonExpired ==
    Returned("find_blockers_for_expired_sstables") =>
        \A b \in C11_MoreBodies :
            LET more == C11_ResultWithOneMore(b)
            IN /\ SeqToSet(ret.blocked) \subseteq SeqToSet(more.blocked)
               /\ SeqToSet(ret.blocked) \cap SeqToSet(more.non_blocked) = {}

\* a call that left one file blocked and another non-blocked, and a further
\* non-expired file that, not overlapping the blocked one in timestamp,
\* blocks the other
C11_Witness ==
    /\ Returned("find_blockers_for_expired_sstables")
    /\ Len(ret.blocked) > 0
    /\ Len(ret.non_blocked) > 0
    /\ \E b \in C11_MoreBodies :
        LET l == C11_WithOneMore(b)[Len(C11_WithOneMore(b))]
            more == C11_ResultWithOneMore(b)
        IN /\ SeqToSet(more.blocked) # SeqToSet(ret.blocked)
           /\ \E e \in SeqToSet(ret.blocked) : ~overlaps_in_timestamp(e, l)


---------------------------------------------------------------------------
(* C12 *)

\* the first lane at the return of get_token: h1 after h1 += h2
C12_Lane == WideAdd(args[1], args[2])

\* (x + 2^63) mod 2^64 - 2^63 on the representation: hi becomes -1 or 0 by
\* the parity of hi + 1, the low 63 bits stay
C12_Reduced(x) == WideInt(((x.hi + 1) % 2) - 1, x.lo)

\* C12: the token returned is the first lane reduced by
\* (x + 2^63) mod 2^64 - 2^63 and lies in [-2^63 + 1, 2^63 - 1]: the 64-bit
\* minimum -2^63 is never returned, whatever the lane value.
C12_TokenAvoidsMinimum ==
    Returned("get_token") =>
        /\ ret = C12_Reduced(C12_Lane)
        /\ WideLe(WideAdd(INT64_MIN, WideOne), ret)
        /\ WideLe(ret, INT64_MAX)


---------------------------------------------------------------------------
(* C14 *)

\* the files a step links (or fails to link) or removes
C14_Acted ==
    (backup' \ backup) \cup (removed' \ removed) \cup (link_failed' \ link_failed)

C14_Names(ssts) == {ssts[i].name : i \in 1..Len(ssts)}

---------------------------------------------------------------------------
(* C15 *)

\* the directory of the file under call: count, then (type, offset) pairs
C15_Count == args.file[1]

C15_Type(i) == args.file[2 * i]

C15_Offset(i) == args.file[2 * i + 1]

C15_HasStats == \E i \in 1..C15_Count : C15_Type(i) = 2

\* the fields of the component at a byte offset, by the layout of the format
C15_FieldsAt(offset) ==
    LET file == args.file
        rows == (offset \div 4) + 1
        columns == rows + 1 + 4 * file[rows]
        min == columns + 1 + 4 * file[columns] + 3
        del == min + 4 + (IF args.sstable_format = "mc" THEN 1 ELSE 0)
    IN [status |-> "ok",
        min_timestamp |-> <<file[min], file[min + 1]>>,
        max_timestamp |-> <<file[min + 2], file[min + 3]>>,
        max_deletion_time |-> file[del]]

\* C15: the decode fails for a missing Stats component iff no directory
\* entry has type 2; otherwise min_timestamp, max_timestamp and
\* max_deletion_time are those of the component at the offset of the entry
\* of type 2, whatever the number of entries, the position of that entry
\* and the bytes behind the Stats component.
C15_FieldsFromStatsEntryAlone ==
    Returned("init_stats_metadata") =>
        /\ ret.status = "no_stats" <=> ~C15_HasStats
        /\ \A i \in 1..C15_Count :
            C15_Type(i) = 2 => ret = C15_FieldsAt(C15_Offset(i))


====
